---- MODULE Spec2Model ----
(***************************************************************************)
(* Call-center audio analysis service: the analyze_call pipeline of        *)
(* main.py and the analyze_audio / export_data handlers of app.py.         *)
(*                                                                         *)
(* File names are sequences of tokens (<<"a", ".mp3">> is a.mp3), a text   *)
(* is a sequence of tokens (whitespace, code fences, one YAML body), and a *)
(* file's content is a sequence of cells, one per extent of the document   *)
(* written, so truncation, partial writes and overlays are visible.        *)
(***************************************************************************)
EXTENDS Naturals, Sequences, FiniteSets, TLC

\* Longest stream of chunks the model service sends in one call.
MaxChunks == 2

----------------------------------------------------------------------------
\* Text tokens
WS == " "
\* a code fence in either spelling, the bare one or the one tagged yaml
Fence == "[fence]"
Layout == {WS, Fence}
Bodies == {"key: value", "error: none", "42", "when: 2024-01-01", "not: [valid yaml"}
\* chunk.text of one streamed chunk: a token, or "" for a chunk without text
ChunkTexts == {""} \cup Layout \cup Bodies

RECURSIVE SeqsUpTo(_, _)
\* all streams of at most n chunks carrying at most one YAML body
SeqsUpTo(S, n) ==
  IF n = 0 THEN {<<>>}
  ELSE LET shorter == SeqsUpTo(S, n - 1)
       IN  shorter \cup {Append(s, c) : s \in {t \in shorter : Len(t) = n - 1},
                                        c \in S}

Streams == {s \in SeqsUpTo(ChunkTexts, MaxChunks) :
              Cardinality({i \in DOMAIN s : s[i] \in Bodies}) <= 1}

----------------------------------------------------------------------------
\* str.strip(): whitespace removed at both ends only
RECURSIVE LStrip(_)
LStrip(t) == IF t # <<>> /\ Head(t) = WS THEN LStrip(Tail(t)) ELSE t

RECURSIVE RStrip(_)
RStrip(t) == IF t # <<>> /\ t[Len(t)] = WS THEN RStrip(SubSeq(t, 1, Len(t) - 1)) ELSE t

Strip(t) == RStrip(LStrip(t))

\* str.replace(tok, ""): every occurrence removed
Remove(t, tok) == SelectSeq(t, LAMBDA x : x # tok)

\* str.replace(old, new) on a path: every occurrence replaced
ReplaceAll(t, old, new) == [i \in DOMAIN t |-> IF t[i] = old THEN new ELSE t[i]]

\* the for loop over response_stream: chunks without text are skipped
Aggregate(chunks) == SelectSeq(chunks, LAMBDA c : c # "")

\* the streams whose chunks all carry text
TextStreams == {s \in Streams : Aggregate(s) = s}

\* full_response_text.strip().replace(...).replace(...): the two calls delete
\* the two spellings of a fence, together every fence
Clean(text) == Remove(Strip(text), Fence)

----------------------------------------------------------------------------
\* Python values: the parsed analysis, an error record, a decoded document
NoMsg == <<>>
Value(type, keys, error, raw, serial) ==
  [type |-> type, keys |-> keys, error |-> error, raw |-> raw, serial |-> serial]
NoValue == Value("absent", {}, NoMsg, <<>>, TRUE)
NoneValue == Value("null", {}, NoMsg, <<>>, TRUE)
ErrorRecord(msg) == Value("dict", {"error"}, msg, <<>>, TRUE)
ParseFailure(text) ==
  Value("dict", {"error", "raw_output"}, <<"Failed to parse model output">>, text, TRUE)
TextDoc(text) == Value("text", {}, NoMsg, text, TRUE)

\* yaml.safe_load of the cleaned text: [ok, value]; ok = FALSE is yaml.YAMLError
YamlLoad(cleaned) ==
  LET body == Remove(cleaned, WS)
  IN  IF body = <<>> THEN [ok |-> TRUE, value |-> NoneValue]
      ELSE CASE body = <<"key: value">> ->
                  [ok |-> TRUE, value |-> Value("dict", {"key"}, NoMsg, <<>>, TRUE)]
             [] body = <<"error: none">> ->
                  [ok |-> TRUE, value |-> Value("dict", {"error"}, <<"none">>, <<>>, TRUE)]
             [] body = <<"42">> ->
                  [ok |-> TRUE, value |-> Value("int", {}, NoMsg, <<>>, TRUE)]
             [] body = <<"when: 2024-01-01">> ->
                  [ok |-> TRUE, value |-> Value("dict", {"when"}, NoMsg, <<>>, FALSE)]
             [] body = <<"not: [valid yaml">> ->
                  [ok |-> FALSE, value |-> NoValue]

----------------------------------------------------------------------------
\* File contents: one cell per extent of the document written
DocLen(v) == IF v.type = "text" THEN Len(v.raw)
             ELSE IF v.type = "dict" THEN 2 ELSE 1
FullDoc(v) == [i \in 1..DocLen(v) |-> [doc |-> v, part |-> i]]
\* what json.dump has written when it meets a value it cannot serialise
PartialDoc(v) == SubSeq(FullDoc(v), 1, DocLen(v) - 1)

\* json.load of a file's content: [ok, value]; ok = FALSE is json.JSONDecodeError
JsonLoad(cells) ==
  IF cells # <<>> /\ cells[1].doc.type # "text" /\ cells[1].doc.serial
     /\ cells = FullDoc(cells[1].doc)
  THEN [ok |-> TRUE, value |-> cells[1].doc]
  ELSE [ok |-> FALSE, value |-> NoValue]

\* write(2) of data at offset 0 of a file opened without O_APPEND
Overlay(old, data) ==
  [i \in 1..(IF Len(old) > Len(data) THEN Len(old) ELSE Len(data)) |->
     IF i <= Len(data) THEN data[i] ELSE old[i]]

\* the directory dir after file name has been given content cells
WriteFile(dir, name, cells) ==
  [n \in DOMAIN dir \cup {name} |-> IF n = name THEN cells ELSE dir[n]]

----------------------------------------------------------------------------
\* File names
Last(s) == s[Len(s)]
Front(s) == SubSeq(s, 1, Len(s) - 1)
\* os.path.splitext: <<root, extension>>
splitext(name) ==
  IF Len(name) >= 2 THEN <<Front(name), Last(name)>> ELSE <<name, "">>
\* str.lower() on an extension
lower(ext) == CASE ext = ".MP3" -> ".mp3"
                [] ext = ".WAV" -> ".wav"
                [] OTHER -> ext
mime_types == [e \in {".mp3", ".wav", ".m4a", ".ogg"} |->
                 CASE e = ".mp3" -> "audio/mpeg"
                   [] e = ".wav" -> "audio/wav"
                   [] e = ".m4a" -> "audio/m4a"
                   [] e = ".ogg" -> "audio/ogg"]
analysis_filename(audio_path) == Append(splitext(audio_path)[1], ".json")
txt_filename(audio_path) == ReplaceAll(analysis_filename(audio_path), ".json", ".txt")

----------------------------------------------------------------------------
\* What the surroundings decide in one analysis: the chunks the model service
\* streams, the finish condition it reports, and the step (if any) that fails.
STOP == [read |-> "ok", code |-> 1, name |-> "STOP"]
FinishConds == {STOP,
                [read |-> "ok", code |-> 2, name |-> "MAX_TOKENS"],
                [read |-> "ok", code |-> 3, name |-> "SAFETY"],
                [read |-> "IndexError", code |-> 0, name |-> ""],
                [read |-> "AttributeError", code |-> 0, name |-> ""]}
FaultMsg(f) == CASE f = "read" -> <<"[Errno 13] Permission denied: ", "audio">>
                 [] f = "net" -> <<"503 Service Unavailable">>
                 [] f = "stream" -> <<"Connection reset while streaming">>
                 [] f = "write" -> <<"[Errno 28] No space left on device">>
Env(fault, chunks, finish) == [fault |-> fault, chunks |-> chunks, finish |-> finish]
\* the finish condition is read only after a blank aggregate, a failure before
\* the stream ends makes the stream irrelevant, and a failing write is tried
\* with the one-chunk streams
Envs ==
  {Env(f, <<>>, STOP) : f \in {"read", "net", "stream"}}
  \cup {Env("none", s, fin) : s \in {t \in TextStreams : Strip(Aggregate(t)) = <<>>},
                              fin \in FinishConds}
  \cup {Env("none", s, STOP) : s \in {t \in TextStreams : Strip(Aggregate(t)) # <<>>}}
  \cup {Env("write", s, STOP) : s \in {t \in TextStreams : Len(t) = 1 /\ Strip(t) # <<>>}}

None == <<>>

\* One run of analyze_call: what it returns and what it puts on disk.
\*   ret      the returned value
\*   file     the result file it opens for writing (None: it opens none)
\*   data     what it writes to that file
\*   exc      the description of the exception caught at the top level (NoMsg: none)
\*   calls    the number of generate_content requests sent
\*   outcome  "ok" | "empty" | "parse" | "exception" ("streaming": not yet ended)
Run(ret, file, data, exc, calls, outcome) ==
  [ret |-> ret, file |-> file, data |-> data, exc |-> exc, calls |-> calls,
   outcome |-> outcome]
\* the top-level handler left out: the exception leaves analyze_call
Escapes(msg, file, data, calls) == Run(NoValue, file, data, msg, calls, "raised")

\* lines 124-126: the top-level handler
Caught(msg, file, data, calls) == Run(ErrorRecord(msg), file, data, msg, calls, "exception")
NoRun == Run(NoValue, None, <<>>, NoMsg, 0, "none")

\* lines 45-84: everything before the first chunk is awaited
BeforeStream(audio_path, api_key, fault) ==
  LET file_extension == lower(splitext(audio_path)[2])
  IN  IF ~api_key
        THEN Caught(<<"GEMINI_API_KEY not found in environment variables.">>, None, <<>>, 0)
      ELSE IF file_extension \notin DOMAIN mime_types
        THEN Caught(<<"Unsupported audio file format: ", file_extension>>, None, <<>>, 0)
      ELSE IF fault = "read" THEN Caught(FaultMsg("read"), None, <<>>, 0)
      ELSE IF fault = "net" THEN Caught(FaultMsg("net"), None, <<>>, 1)
      ELSE Run(NoValue, None, <<>>, NoMsg, 1, "streaming")

\* the chunk put in front of the aggregate instead of behind it
Prepend(text, chunk) == IF chunk # "" THEN <<chunk>> \o text ELSE text

\* lines 88-91: one turn of the loop over the stream
Accumulate(text, chunk) == IF chunk # "" THEN Append(text, chunk) ELSE text

\* the finish condition never looked at
EmptyResponseGeneric(finish) ==
  ErrorRecord(<<"Received an empty response from the API.">>)

\* lines 93-101: the error returned for a blank aggregate
EmptyResponse(finish) ==
  IF finish.read = "ok" /\ finish.code # 1
  THEN ErrorRecord(<<"API call finished prematurely. Reason: ", finish.name>>)
  ELSE ErrorRecord(<<"Received an empty response from the API.">>)

\* lines 109-122: persist what yaml.safe_load made of the aggregate
Save(json_path, txt_path, text, fault, loaded) ==
  IF fault = "write"
    THEN Caught(FaultMsg("write"), IF loaded.ok THEN json_path ELSE txt_path, <<>>, 1)
  ELSE IF ~loaded.ok
    THEN Run(ParseFailure(text), txt_path, FullDoc(TextDoc(text)), NoMsg, 1, "parse")
  ELSE IF ~loaded.value.serial
    THEN Caught(<<"Object of type date is not JSON serializable">>,
                json_path, PartialDoc(loaded.value), 1)
  ELSE Run(loaded.value, json_path, FullDoc(loaded.value), NoMsg, 1, "ok")

\* lines 93-122: what follows the end of the stream
AfterStream(audio_path, text, finish, fault) ==
  IF Strip(text) = <<>>
    THEN Run(EmptyResponse(finish), None, <<>>, NoMsg, 1, "empty")
  ELSE Save(analysis_filename(audio_path), txt_filename(audio_path), text, fault,
            YamlLoad(Clean(text)))

analyze_call(audio_path, api_key, env) ==
  IF BeforeStream(audio_path, api_key, env.fault).outcome # "streaming"
    THEN BeforeStream(audio_path, api_key, env.fault)
  ELSE IF env.fault = "stream" THEN Caught(FaultMsg("stream"), None, <<>>, 1)
  ELSE AfterStream(audio_path, Aggregate(env.chunks), env.finish, env.fault)

\* a result file that exists is kept
CommitOnce(results, run) ==
  IF run.file = None \/ run.file \in DOMAIN results THEN results
  ELSE WriteFile(results, run.file, run.data)

\* open(path, "w"), the writes and the close of one run, nothing in between
Commit(results, run) ==
  IF run.file = None THEN results ELSE WriteFile(results, run.file, run.data)

----------------------------------------------------------------------------
VARIABLES
  audio_files,         \* AUDIO_DIR: the names of the files in it
  analysis_results,    \* ANALYSIS_DIR: file name -> content
  GEMINI_API_KEY,      \* whether the environment holds the credential
  response,            \* the response to the latest request
  last,                \* the latest request: what it asked and what analyze_call did
  pc,                  \* a call of analyze_call followed chunk by chunk: where it is
  path,                \*   its audio_path
  response_stream,     \*   the chunks it has received
  full_response_text,  \*   its aggregate
  returned,            \*   the value it returned
  results_before,      \*   ANALYSIS_DIR when it was called
  workers              \* two server processes: what each is doing

handlerVars == <<audio_files, response, last>>
callVars == <<pc, path, response_stream, full_response_text, returned, results_before>>
vars == <<audio_files, analysis_results, GEMINI_API_KEY, response, last, pc, path,
          response_stream, full_response_text, returned, results_before, workers>>

\* a.WAV is on disk from the start; a.mp3 and b.txt arrive as uploads
Stored == {<<"a", ".WAV">>}
UploadNames == {<<"a", ".mp3">>, <<"b", ".txt">>}
IdNames == {<<"a", ".mp3">>, <<"a", ".WAV">>}
\* a name with ".json" inside it
DottedNames == {<<"a", ".json", ".mp3">>}
AnalysisIds(names) ==
  {splitext(n)[1] : n \in names} \cup {analysis_filename(n) : n \in names}
  \cup {Append(splitext(n)[1], ".txt") : n \in names}
Workers == {1, 2}

Response(status, detail, content, unhandled) ==
  [status |-> status, detail |-> detail, content |-> content, unhandled |-> unhandled]
HTTPException(status, detail) == Response(status, detail, NoValue, FALSE)
JSONResponse(content) == Response(200, NoMsg, content, FALSE)
\* an exception that leaves the handler: the server answers 500 itself
Unhandled(type) == Response(500, <<type>>, NoValue, TRUE)

\* whether the run aggregated a stream to its end and found no text in it
SawBlank(run, env) ==
  /\ run.calls = 1
  /\ env.fault \notin {"net", "stream"}
  /\ \A i \in DOMAIN env.chunks : env.chunks[i] \in {"", WS}
Request(op, given, audio_path, called, run, env) ==
  [op |-> op, given |-> given, path |-> audio_path, called |-> called,
   calls |-> run.calls, outcome |-> run.outcome, exc |-> run.exc, ret |-> run.ret,
   blank |-> SawBlank(run, env),
   finish |-> IF SawBlank(run, env) THEN env.finish ELSE STOP,
   text |-> IF run.outcome = "parse" THEN Aggregate(env.chunks) ELSE <<>>]
NoEnv == Env("none", <<>>, STOP)
Idle == [pc |-> "idle", run |-> NoRun]

Init ==
  /\ audio_files = Stored
  /\ analysis_results = <<>>
  /\ GEMINI_API_KEY \in BOOLEAN
  /\ response = Response(0, NoMsg, NoValue, FALSE)
  /\ last = Request("none", "neither", None, FALSE, NoRun, NoEnv)
  /\ pc = "idle"
  /\ path = None
  /\ response_stream = <<>>
  /\ full_response_text = <<>>
  /\ returned = NoValue
  /\ results_before = <<>>
  /\ workers = [w \in Workers |-> Idle]

----------------------------------------------------------------------------
\* The service as app.py starts it: one process, whose event loop runs a
\* handler to its end before it starts the next (analyze_audio is a coroutine
\* without an await).

\* lines 100-103: what the handler makes of analyze_call's return value
Reply(analysis_result) ==
  IF analysis_result.type # "dict" THEN Unhandled("TypeError")
  ELSE IF "error" \in analysis_result.keys
    THEN HTTPException(500, analysis_result.error)
  ELSE JSONResponse(analysis_result)

\* lines 86-87: the request the handler refuses outright
Refused(audio_id, file) == audio_id = None /\ file = None

\* the existence check left out
MissingNever(audio_id, file, files) == FALSE

\* lines 93-96: an id that names no file of AUDIO_DIR
Missing(audio_id, file, files) == file = None /\ audio_id \notin files

analyze_audio(audio_id, file, env) ==
  LET given == IF audio_id = None /\ file = None THEN "neither"
               ELSE IF audio_id # None /\ file # None THEN "both"
               ELSE IF file # None THEN "upload" ELSE "id"
      audio_path == IF file # None THEN file ELSE audio_id
  IN  /\ UNCHANGED <<GEMINI_API_KEY, callVars, workers>>
      /\ IF Refused(audio_id, file)
           THEN /\ response' = HTTPException(400,
                      <<"You must provide either an 'audio_id' or upload a 'file'.">>)
                /\ last' = Request("analyze", given, None, FALSE, NoRun, NoEnv)
                /\ UNCHANGED <<audio_files, analysis_results>>
         ELSE IF Missing(audio_id, file, audio_files)
           THEN /\ response' = HTTPException(404,
                      <<"Audio file with id '", "audio_id", "' not found.">>)
                /\ last' = Request("analyze", given, audio_path, FALSE, NoRun, NoEnv)
                /\ UNCHANGED <<audio_files, analysis_results>>
         ELSE \E run \in {analyze_call(audio_path, GEMINI_API_KEY, env)} :
                /\ audio_files' = IF file # None THEN audio_files \cup {file}
                                  ELSE audio_files
                /\ analysis_results' = Commit(analysis_results, run)
                /\ response' = Reply(run.ret)
                /\ last' = Request("analyze", given, audio_path, TRUE, run, env)

export_data(analysis_id) ==
  /\ response' =
       IF analysis_id \notin DOMAIN analysis_results
         THEN HTTPException(404, <<"Analysis with id '", "analysis_id", "' not found.">>)
       ELSE LET data == JsonLoad(analysis_results[analysis_id])
            IN  IF data.ok THEN JSONResponse(data.value)
                ELSE Unhandled("JSONDecodeError")
  /\ last' = Request("export", "neither", analysis_id, FALSE, NoRun, NoEnv)
  /\ UNCHANGED <<audio_files, analysis_results, GEMINI_API_KEY, callVars, workers>>

\* the surroundings matter only to a run that gets past its first checks
EnvsFor(audio_path) ==
  IF GEMINI_API_KEY /\ lower(splitext(audio_path)[2]) \in DOMAIN mime_types
  THEN Envs ELSE {NoEnv}

Requests(ids, uploads) ==
  \/ \E audio_id \in {None} \cup ids, file \in {None} \cup uploads :
       \E env \in EnvsFor(IF file # None THEN file ELSE audio_id) :
         analyze_audio(audio_id, file, env)
  \/ \E analysis_id \in AnalysisIds(ids \cup uploads) : export_data(analysis_id)

Next == Requests(IdNames, UploadNames)

Spec == Init /\ [][Next]_vars

\* the same service, asked about a file whose name has ".json" inside it
NextDotted == Requests(DottedNames, DottedNames)

SpecDotted == Init /\ [][NextDotted]_vars

----------------------------------------------------------------------------
\* One call of analyze_call after another, each followed chunk by chunk.
Call(audio_path, fault) ==
  /\ pc = "idle"
  /\ \E run \in {BeforeStream(audio_path, GEMINI_API_KEY, fault)} :
       /\ pc' = IF run.outcome = "streaming" THEN "streaming" ELSE "returned"
       /\ returned' = run.ret
  /\ path' = audio_path
  /\ response_stream' = <<>>
  /\ full_response_text' = <<>>
  /\ results_before' = analysis_results
  /\ UNCHANGED <<analysis_results, GEMINI_API_KEY, handlerVars, workers>>

\* the stream yields its next chunk
Chunk(chunk) ==
  /\ pc = "streaming"
  /\ Len(response_stream) < MaxChunks
  /\ chunk \in Bodies => \A i \in DOMAIN response_stream : response_stream[i] \notin Bodies
  /\ response_stream' = Append(response_stream, chunk)
  /\ full_response_text' = Accumulate(full_response_text, chunk)
  /\ UNCHANGED <<pc, path, returned, results_before, analysis_results, GEMINI_API_KEY,
                 handlerVars, workers>>

\* the stream raises instead of yielding
StreamError ==
  /\ pc = "streaming"
  /\ pc' = "aborted"
  /\ returned' = Caught(FaultMsg("stream"), None, <<>>, 1).ret
  /\ UNCHANGED <<path, response_stream, full_response_text, results_before,
                 analysis_results, GEMINI_API_KEY, handlerVars, workers>>

\* the stream ends
EndOfStream(finish, fault) ==
  /\ pc = "streaming"
  /\ pc' = "returned"
  /\ \E run \in {AfterStream(path, full_response_text, finish, fault)} :
       /\ analysis_results' = Commit(analysis_results, run)
       /\ returned' = run.ret
  /\ UNCHANGED <<path, response_stream, full_response_text, results_before,
                 GEMINI_API_KEY, handlerVars, workers>>

\* the caller goes on to its next call
Again ==
  /\ pc \in {"returned", "aborted"}
  /\ pc' = "idle"
  /\ path' = None
  /\ response_stream' = <<>>
  /\ full_response_text' = <<>>
  /\ returned' = NoValue
  /\ results_before' = <<>>
  /\ UNCHANGED <<analysis_results, GEMINI_API_KEY, handlerVars, workers>>

NextStream ==
  \/ \E audio_path \in Stored \cup UploadNames, fault \in {"none", "read", "net"} :
       Call(audio_path, fault)
  \/ \E chunk \in ChunkTexts : Chunk(chunk)
  \/ StreamError
  \/ \E finish \in FinishConds, fault \in {"none", "write"} : EndOfStream(finish, fault)
  \/ Again

SpecStream == Init /\ [][NextStream]_vars

----------------------------------------------------------------------------
\* The service run as several server processes: each runs one handler at a
\* time, and the processes share ANALYSIS_DIR. What a process does to the
\* directory is a step of its own: the open that truncates, and the write of
\* the buffered document when the file is closed.
Accept(w, audio_path, env) ==
  /\ workers[w].pc = "idle"
  /\ \E run \in {analyze_call(audio_path, GEMINI_API_KEY, env)} :
       workers' = [workers EXCEPT
                     ![w] = [pc |-> IF run.file = None THEN "returned" ELSE "saving",
                             run |-> run]]
  /\ UNCHANGED <<analysis_results, GEMINI_API_KEY, handlerVars, callVars>>

\* lines 113 and 118: open(path, "w") creates or truncates the file
Open(w) ==
  /\ workers[w].pc = "saving"
  /\ analysis_results' = WriteFile(analysis_results, workers[w].run.file, <<>>)
  /\ workers' = [workers EXCEPT ![w].pc = "opened"]
  /\ UNCHANGED <<GEMINI_API_KEY, handlerVars, callVars>>

\* the end of the with block: the buffer is written at the start of the file
Close(w) ==
  /\ workers[w].pc = "opened"
  /\ analysis_results' =
       WriteFile(analysis_results, workers[w].run.file,
                 Overlay(analysis_results[workers[w].run.file], workers[w].run.data))
  /\ workers' = [workers EXCEPT ![w].pc = "returned"]
  /\ UNCHANGED <<GEMINI_API_KEY, handlerVars, callVars>>

NextRace ==
  \/ \E w \in Workers, audio_path \in Stored \cup UploadNames :
       \E env \in EnvsFor(audio_path) : Accept(w, audio_path, env)
  \/ \E w \in Workers : Open(w)
  \/ \E w \in Workers : Close(w)

SpecRace == Init /\ [][NextRace]_vars

----------------------------------------------------------------------------
\* Properties

\* <results_dir>/<basename>.json and .txt of an audio file, from its name alone
JsonOf(audio_path) == Append(Front(audio_path), ".json")
TxtOf(audio_path) == Append(Front(audio_path), ".txt")
IsJson(name) == Last(name) = ".json"
Analyzed == last.op = "analyze" /\ last.called
JsonFiles(results) == {f \in DOMAIN results : IsJson(f)}
\* file f is in directory new what it was in directory old
SameFile(f, old, new) ==
  (f \in DOMAIN old <=> f \in DOMAIN new) /\ (f \in DOMAIN old => new[f] = old[f])
NonEmpty(chunk) == chunk # ""

\* C1: a request with both an upload and an audio_id, or with neither, is
\* rejected (400) before analyze_call is invoked and before any model call.
C1_BothOrNeitherRejected ==
  (last.op = "analyze" /\ last.given \in {"both", "neither"})
    => (response.status = 400 /\ ~last.called /\ last.calls = 0)

\* C2 as claimed: after an analysis of a file with base name n, whatever its
\* outcome, n.json holds that run's outcome and no older result.
C2_FileHoldsLatestRun ==
  (Analyzed /\ JsonOf(last.path) \in DOMAIN analysis_results)
    => IF last.outcome = "ok"
         THEN analysis_results[JsonOf(last.path)] = FullDoc(last.ret)
       ELSE ~JsonLoad(analysis_results[JsonOf(last.path)]).ok

\* C2 as amended: a successful analysis of a file with base name n leaves its
\* result in n.json, replacing what was there; a run that ends in an empty
\* response or a parse failure leaves n.json as it was; a run that ends in an
\* exception leaves it as it was or leaves it incomplete; and no analysis
\* touches another .json file.
C2_LatestWriterWins ==
  [][
      (last'.op = "analyze" /\ last'.called) =>
        LET j == JsonOf(last'.path)
        IN  /\ \A f \in (JsonFiles(analysis_results) \cup JsonFiles(analysis_results')) \ {j} :
                 SameFile(f, analysis_results, analysis_results')
            /\ last'.outcome = "ok" =>
                 j \in DOMAIN analysis_results' /\ analysis_results'[j] = FullDoc(last'.ret)
            /\ last'.outcome \in {"empty", "parse"} =>
                 SameFile(j, analysis_results, analysis_results')
            /\ last'.outcome = "exception" =>
                 \/ SameFile(j, analysis_results, analysis_results')
                 \/ j \in DOMAIN analysis_results' /\ ~JsonLoad(analysis_results'[j]).ok
  ]_vars
\* C2, reached: a failed re-analysis has left an older, complete result in place
C2_Witness ==
  /\ Analyzed /\ last.outcome = "empty"
  /\ JsonOf(last.path) \in DOMAIN analysis_results
  /\ JsonLoad(analysis_results[JsonOf(last.path)]).ok

\* C3: every exception inside analyze_call is caught there and returned as an
\* error record carrying its description, and the handler answers with an
\* HTTP 500 whose detail is that description, not with an unhandled exception.
C3_ExceptionsSurfaced ==
  (Analyzed /\ last.exc # NoMsg)
    => /\ last.outcome = "exception"
       /\ last.ret = ErrorRecord(last.exc)
       /\ response = HTTPException(500, last.exc)
\* C3, reached: the write of the result failed and the caller got a 500
C3_Witness ==
  Analyzed /\ last.exc = FaultMsg("write") /\ response.status = 500

\* C4: export_data with analysis_id = n returns the structured document
\* persisted for base name n, and 404 for an id with no persisted result.
C4_ExportByBaseName ==
  last.op = "export" =>
    LET j == Append(last.path, ".json")
    IN  /\ (/\ j \in DOMAIN analysis_results
             /\ JsonLoad(analysis_results[j]).ok
             /\ JsonLoad(analysis_results[j]).value.type = "dict")
             => response = JSONResponse(JsonLoad(analysis_results[j]).value)
        /\ (j \notin DOMAIN analysis_results /\ last.path \notin DOMAIN analysis_results)
             => response.status = 404

\* C5: analysis by audio_id of a file that is not in the audio directory is
\* answered 404, without analyze_call, a model call or a write to either
\* directory.
C5_UnknownIdNotFound ==
  [][
      (last'.op = "analyze" /\ last'.given = "id" /\ last'.path \notin audio_files)
        => /\ response'.status = 404 /\ ~response'.unhandled
           /\ ~last'.called /\ last'.calls = 0
           /\ audio_files' = audio_files
           /\ analysis_results' = analysis_results
  ]_vars
\* C5, reached: an id that names no stored file was answered 404
C5_Witness ==
  /\ last.op = "analyze" /\ last.given = "id" /\ last.path \notin audio_files
  /\ response.status = 404

\* C6: on a parse failure the raw aggregate is written to <basename>.txt, the
\* returned error carries it unchanged as raw_output, and one model call was made.
C6_RawTextKept ==
  (Analyzed /\ last.outcome = "parse")
    => /\ TxtOf(last.path) \in DOMAIN analysis_results
       /\ analysis_results[TxtOf(last.path)] = FullDoc(TextDoc(last.text))
       /\ last.ret.raw = last.text
       /\ last.calls = 1

\* C7: the handler answers with the structured value exactly when the pipeline
\* succeeded, and with HTTP 500 and an error body exactly when it failed.
C7_SuccessIffPipelineOk ==
  Analyzed =>
    /\ last.outcome = "ok" <=> response = JSONResponse(last.ret)
    /\ last.outcome # "ok" <=>
         (response.status = 500 /\ ~response.unhandled /\ response.detail # NoMsg)

\* C8: once two concurrent analyses that write the same result file have both
\* finished, the file holds the complete output of one of them.
C8_LastWriteWins ==
  (/\ \A w \in Workers : workers[w].pc = "returned" /\ workers[w].run.file # None
   /\ workers[1].run.file = workers[2].run.file)
    => analysis_results[workers[1].run.file] \in {workers[1].run.data, workers[2].run.data}

\* C9: a blank aggregate yields an error and leaves the results directory as
\* it was; the error names the finish reason when that reason can be read and
\* is not the normal stop, and is the generic empty-response error otherwise.
C9_BlankAggregate ==
  [][
      (last'.op = "analyze" /\ last'.blank) =>
        /\ analysis_results' = analysis_results
        /\ last'.ret.type = "dict" /\ last'.ret.keys = {"error"}
        /\ last'.ret.error =
             IF last'.finish.read = "ok" /\ last'.finish.name # "STOP"
               THEN <<"API call finished prematurely. Reason: ", last'.finish.name>>
             ELSE <<"Received an empty response from the API.">>
  ]_vars
\* C9, reached: a blank aggregate whose finish reason is SAFETY
C9_Witness ==
  /\ last.op = "analyze" /\ last.blank /\ last.finish.name = "SAFETY"
  /\ response.status = 500

\* C10: the aggregate is the chunks that carry text, in arrival order; while
\* the stream is being read nothing is returned and no result file is written;
\* and a stream that fails part-way yields an error record and no result file.
C10_WholeStreamFirst ==
  /\ full_response_text = SelectSeq(response_stream, NonEmpty)
  /\ pc = "streaming" => (returned = NoValue /\ analysis_results = results_before)
  /\ pc = "aborted" =>
       /\ returned.type = "dict" /\ "error" \in returned.keys
       /\ analysis_results = results_before
\* C10, reached: the stream failed after chunks with and without text
C10_Witness ==
  pc = "aborted" /\ full_response_text # <<>> /\ Len(response_stream) > Len(full_response_text)

====
